---- MODULE Spec2Model ----
(***************************************************************************)
(* A model of bulk_scanner.py: the end-of-day scanner that gates on New    *)
(* York time and on the market tide, scans a ticker list, backtests the    *)
(* breakout rule on every symbol, and turns the surviving symbols into      *)
(* bracket orders at the brokerage.                                         *)
(*                                                                         *)
(* Units.  Prices of the bar series are in mills (1/1000 dollar), so that  *)
(* round(price, 2) has something to round; prices of candidates and        *)
(* orders, the account equity and MAX_CASH are in cents.  Win rates are in *)
(* tenths of a percent after round(x, 1).  Indicator columns are rationals *)
(* over the common denominator Scale.  Floating point is modelled by exact *)
(* rational arithmetic.                                                     *)
(*                                                                         *)
(* A ticker symbol is modelled by the number of its line in tickers.txt.   *)
(***************************************************************************)
EXTENDS Integers, Sequences, FiniteSets, TLC

(***************************************************************************)
(* Program constants                                                       *)
(***************************************************************************)
GATE_HOUR == 15
GATE_MINUTE_FROM == 40
GATE_MINUTE_TO == 59
TIDE_MAX_RETRIES == 3
VIX_LIMIT == 32
DOWNLOAD_ATTEMPTS == 3
MIN_BARS == 50
MIN_PRICE_MILLS == 1000
MIN_AVG_VOLUME == 300000
VOLUME_WINDOW == 20
ADX_LENGTH == 14
SMA_FAST == 10
SMA_SLOW == 20
HORIZON == 3
WIN_RATE_MIN == 55
PDT_EQUITY_CENTS == 3000000
PDT_DAYTRADES == 2
MAX_SETUPS == 20
MAX_CASH_CENTS == 500000

\* relative volume floor 1.5 as a fraction
REL_VOLUME_NUM == 3
REL_VOLUME_DEN == 2
\* take profit 1.03 and stop loss 0.99 as percentages
TAKE_PROFIT_PCT == 103
STOP_LOSS_PCT == 99

(***************************************************************************)
(* Bounds of the model                                                     *)
(***************************************************************************)
\* longest ticker list read from tickers.txt
MaxTickers == 22

(***************************************************************************)
(* Numbers: a float is either NaN or a rational                            *)
(***************************************************************************)
NaN == [nan |-> TRUE, v |-> 0]
Num(x) == [nan |-> FALSE, v |-> x]

\* a > b on floats: any comparison with NaN is False
Gt(a, b) == ~a.nan /\ ~b.nan /\ a.v > b.v

Max(a, b) == IF a >= b THEN a ELSE b
Min(a, b) == IF a <= b THEN a ELSE b

\* round(): nearest integer to num/den (num >= 0, den > 0), ties to even
RoundHalfEven(num, den) ==
    LET q == num \div den
        r == num % den
    IN  IF 2 * r < den THEN q
        ELSE IF 2 * r > den THEN q + 1
        ELSE IF q % 2 = 0 THEN q ELSE q + 1

\* int(): num/den truncated toward zero (den > 0)
Trunc(num, den) == IF num >= 0 THEN num \div den ELSE 0 - ((0 - num) \div den)

RECURSIVE SumTo(_, _, _)
\* f(lo) + ... + f(hi) for a function f on integers
SumTo(f, lo, hi) == IF lo > hi THEN 0 ELSE f[hi] + SumTo(f, lo, hi - 1)

(***************************************************************************)
(* The downloaded data.  What yfinance and pandas_ta return is an input of *)
(* the program; the model draws it from a family of series, each described *)
(* by a small record (a "fixture"):                                        *)
(*   present  the download has a column group for the symbol               *)
(*   len      number of rows, of which the first nanRows have NaN closes   *)
(*   shape    "trend": closes rise by a fixed step, with dips that turn    *)
(*            the first nloss signals into losses; "flat": constant        *)
(*            closes; "vee": rise, crash, short recovery                   *)
(*   p0       first close, in mills                                        *)
(*   nev      number of bars in the body of the series where ADX rises     *)
(*   tail     ADX also rises on the third bar from the end                 *)
(*   live     ADX also rises on the last bar                               *)
(*   baseVol, lastVol   volume of every bar but the last, of the last bar  *)
(*   ta       what pandas_ta does: "ok", "raise", or the one column it     *)
(*            leaves out: "noSMA10", "noSMA20", "noADX"                    *)
(***************************************************************************)
Fixture(shape, p0, nev, nloss, ta) ==
    [present |-> TRUE, len |-> 60, nanRows |-> 0, shape |-> shape, p0 |-> p0,
     nev |-> nev, nloss |-> nloss, tail |-> TRUE, live |-> TRUE,
     baseVol |-> 1000000, lastVol |-> 2000000, ta |-> ta]

\* rows that survive dropna()
CleanLen(fx) == fx.len - fx.nanRows

\* first bar (1-based) for which pandas_ta's ADX has a value
AdxFirst == 2 * ADX_LENGTH

\* bars of the cleaned series on which the fixture's ADX rises
RiseBars(fx) ==
    { AdxFirst + 1 + 2 * (m - 1) : m \in 1..fx.nev }
      \cup (IF fx.tail THEN {CleanLen(fx) - 2} ELSE {})
      \cup (IF fx.live THEN {CleanLen(fx)} ELSE {})

\* bars whose close dips below the close HORIZON bars earlier
DipBars(fx) == { AdxFirst + 1 + 2 * (m - 1) + HORIZON : m \in 1..fx.nloss }

\* close of bar j of the cleaned series, in mills
FixtureClose(fx, j) ==
    LET n == CleanLen(fx)
        step == 103
        peak == n - 15
        trough == n - 8
    IN  CASE fx.shape = "flat" -> fx.p0
          [] fx.shape = "trend" ->
                fx.p0 + step * j - (IF j \in DipBars(fx) THEN 4 * step ELSE 0)
          [] fx.shape = "vee" ->
                IF j <= peak THEN fx.p0 + step * j
                ELSE IF j <= trough THEN fx.p0 + step * peak - 6 * step * (j - peak)
                ELSE fx.p0 + step * peak - 6 * step * (trough - peak) + step * (j - trough)

\* the ADX_14 column pandas_ta computes for the cleaned series
FixtureADX(fx, j) ==
    IF j < AdxFirst THEN NaN
    ELSE Num(100 + 2 * Cardinality({r \in RiseBars(fx) : r <= j}) - (j - AdxFirst))

\* data[symbol] as downloaded: rows of Close and Volume, NaN where missing
RawRows(fx) ==
    [j \in 1..fx.len |->
        IF j <= fx.nanRows THEN [Close |-> NaN, Volume |-> NaN]
        ELSE [Close |-> Num(FixtureClose(fx, j - fx.nanRows)),
              Volume |-> Num(IF j = fx.len THEN fx.lastVol ELSE fx.baseVol)]]

(***************************************************************************)
(* The per-symbol pipeline of run_main                                     *)
(***************************************************************************)
\* df.empty or df['Close'].isna().all()
EmptyOrAllNaN(rows) == Len(rows) = 0 \/ \A j \in 1..Len(rows) : rows[j].Close.nan

\* df.dropna(): the rows without a NaN, as plain numbers
DropNa(rows) ==
    LET kept == SelectSeq(rows, LAMBDA r : ~r.Close.nan /\ ~r.Volume.nan)
    IN  [j \in 1..Len(kept) |-> [Close |-> kept[j].Close.v, Volume |-> kept[j].Volume.v]]

\* the frame is too short to be scanned
TooShort(df) == Len(df) < MIN_BARS

\* df['Volume'].iloc[-21:-1].mean(), times VOLUME_WINDOW
TrailingVolumeSum(df) ==
    LET n == Len(df)
    IN  SumTo([j \in 1..n |-> df[j].Volume], n - VOLUME_WINDOW, n - 1)

\* price < 1.0 or (volume / avg_vol) < 1.5 or avg_vol < 300000.  With a zero
\* average the quotient is inf or NaN and compares False.
LiquidityRejects(df) ==
    LET n == Len(df)
        volSum == TrailingVolumeSum(df)
    IN  \/ df[n].Close < MIN_PRICE_MILLS
        \/ /\ volSum > 0
           /\ df[n].Volume * VOLUME_WINDOW * REL_VOLUME_DEN < REL_VOLUME_NUM * volSum
        \/ volSum < MIN_AVG_VOLUME * VOLUME_WINDOW

\* common denominator of the Close, SMA10 and SMA20 columns
Scale == SMA_FAST * SMA_SLOW

\* df.ta.sma(length): rolling mean of Close, NaN until the window is full
SMA(df, length, j) ==
    IF j < length THEN NaN
    ELSE Num((Scale \div length)
               * SumTo([x \in 1..Len(df) |-> df[x].Close], j - length + 1, j))

\* calculate_indicators, when pandas_ta does not raise: the columns ADX, SMA10
\* and SMA20, each copied from the column pandas_ta appended, or 0 when
\* pandas_ta appended no such column
CalculateIndicators(df, fx) ==
    [j \in 1..Len(df) |->
        [Close |-> Num(Scale * df[j].Close),
         ADX   |-> IF fx.ta # "noADX" THEN FixtureADX(fx, j) ELSE Num(0),
         SMA10 |-> IF fx.ta # "noSMA10" THEN SMA(df, SMA_FAST, j) ELSE Num(0),
         SMA20 |-> IF fx.ta # "noSMA20" THEN SMA(df, SMA_SLOW, j) ELSE Num(0)]]

\* df['ADX'].shift(1) at row j
ShiftedADX(frame, j) == IF j = 1 THEN NaN ELSE frame[j - 1].ADX

\* Close > SMA10 > SMA20 and ADX > previous ADX, at row j
Fires(frame, j) ==
    /\ Gt(frame[j].Close, frame[j].SMA10)
    /\ Gt(frame[j].SMA10, frame[j].SMA20)
    /\ Gt(frame[j].ADX, ShiftedADX(frame, j))

RECURSIVE FiringRows(_, _)
\* the index of the rows that fire among rows 1..j, in chronological order
FiringRows(frame, j) ==
    IF j = 0 THEN <<>>
    ELSE IF Fires(frame, j) THEN Append(FiringRows(frame, j - 1), j)
    ELSE FiringRows(frame, j - 1)

\* hist: all rows of the frame that fire
Hist(frame) == FiringRows(frame, Len(frame))

\* round(price, 2): mills to cents
RoundPrice(mills) == RoundHalfEven(mills, 10)

\* idx + 3 < len(df), idx zero-based: row idx has a row HORIZON later
HasForwardBar(idx, n) == idx + HORIZON <= n

\* df.iloc[idx+3]['Close'] > df.iloc[idx]['Close']
IsWin(df, idx) == df[idx + HORIZON].Close > df[idx].Close

\* total += 1 outside the check for a forward bar
NextTotalAlways(t, idx, n) == t + 1

\* total after the loop body ran for the event at row idx
NextTotal(t, idx, n) == IF HasForwardBar(idx, n) THEN t + 1 ELSE t

\* wins after the loop body ran for the event at row idx
NextWins(w, df, idx) ==
    IF HasForwardBar(idx, Len(df)) /\ IsWin(df, idx) THEN w + 1 ELSE w

\* total > 0
HasEvidence(t) == t > 0

\* the threshold check left out
AcceptsAnyWinRate(w, t) == TRUE

\* real_win_rate >= 55, with real_win_rate = (wins / total) * 100
AcceptsWinRate(w, t) == w * 100 >= WIN_RATE_MIN * t

\* round(real_win_rate, 1), in tenths of a percent
RoundWinRate(w, t) == RoundHalfEven(w * 1000, t)

(***************************************************************************)
(* Inputs: ticker lists with their downloads, clock readings, outcomes of  *)
(* the tide download, and states of the brokerage account                  *)
(***************************************************************************)
\* (signals, losses) of the symbols of the ranked list: all win rates differ
RatePairs ==
    << <<1, 0>>, <<3, 1>>, <<4, 1>>, <<5, 2>>, <<5, 1>>, <<6, 1>>, <<7, 3>>,
       <<7, 2>>, <<7, 1>>, <<8, 3>>, <<8, 1>>, <<11, 1>>, <<9, 2>>, <<9, 1>>,
       <<10, 3>>, <<10, 1>>, <<11, 4>>, <<11, 3>>, <<11, 2>> >>

\* a list in which every symbol is a candidate: the symbols after the last of
\* RatePairs all have the same, lowest, win rate
RankedFixture(s) ==
    IF s <= Len(RatePairs)
    THEN Fixture("trend", 10005 + 1000 * s, RatePairs[s][1], RatePairs[s][2], "ok")
    ELSE Fixture("trend", 10005 + 1000 * s, 9, 4, "ok")

RankedList(n) == [s \in 1..n |-> RankedFixture(s)]

\* a list of symbols that meet each branch of the scan loop
EdgeList ==
    << [Fixture("trend", 10005, 4, 1, "ok") EXCEPT !.present = FALSE],
       [Fixture("trend", 10005, 4, 1, "ok") EXCEPT !.nanRows = 60],
       [Fixture("trend", 10005, 4, 1, "ok") EXCEPT !.len = 0],
       [Fixture("trend", 10005, 4, 1, "ok") EXCEPT !.len = 49],
       [Fixture("trend", 10005, 4, 1, "ok") EXCEPT !.len = 55, !.nanRows = 6],
       [Fixture("trend", 10005, 4, 1, "ok") EXCEPT !.len = 62, !.nanRows = 2],
       Fixture("trend", 300, 0, 0, "ok"),
       [Fixture("trend", 10005, 4, 1, "ok") EXCEPT !.baseVol = 100000],
       [Fixture("trend", 10005, 4, 1, "ok") EXCEPT !.baseVol = 0],
       [Fixture("trend", 10005, 4, 1, "ok") EXCEPT !.lastVol = 1400000],
       Fixture("flat", 10005, 4, 1, "ok"),
       Fixture("trend", 10005, 4, 1, "raise"),
       Fixture("trend", 10005, 4, 1, "noADX"),
       Fixture("trend", 10005, 4, 1, "noSMA10"),
       Fixture("vee", 10005, 4, 0, "ok"),
       Fixture("vee", 10005, 4, 0, "noSMA20"),
       [Fixture("trend", 10005, 4, 1, "ok") EXCEPT !.live = FALSE],
       [Fixture("trend", 10005, 0, 0, "ok") EXCEPT !.tail = FALSE],
       Fixture("trend", 10005, 4, 2, "ok"),
       Fixture("trend", 10005, 9, 4, "ok"),
       Fixture("trend", 10005, 5, 1, "ok"),
       Fixture("trend", 20005, 3, 1, "ok"),
       Fixture("trend", 10005, 7, 2, "ok") >>

\* the downloads the model draws from: short and long prefixes of the ranked
\* list, up to MaxTickers symbols, and the edge list
Downloads ==
    { RankedList(n) : n \in {1, 3, MaxTickers - 1, MaxTickers} } \cup { EdgeList }

\* datetime.now(tz_ny)
Clock ==
    { [hour |-> 14, minute |-> 45], [hour |-> 15, minute |-> 39],
      [hour |-> 15, minute |-> 40], [hour |-> 15, minute |-> 59],
      [hour |-> 16, minute |-> 0] }

\* what one tide download gives: an exception or empty data, or the last SPY
\* close, the last 20-bar mean of SPY (NaN with fewer than 20 bars) and the
\* last VIX close
TideDownloads ==
    { [raises |-> TRUE, spy |-> NaN, sma20 |-> NaN, vix |-> NaN] }
      \cup { [raises |-> FALSE, spy |-> Num(500), sma20 |-> m, vix |-> Num(x)] :
                m \in {NaN, Num(490), Num(500), Num(510)}, x \in {15, 32, 40} }

\* the account at the brokerage, in cents, with its day trade count
Accounts ==
    { [equity |-> 0 - 50000,  daytrade_count |-> 0],
      [equity |-> 0,          daytrade_count |-> 0],
      [equity |-> 60000,      daytrade_count |-> 1],
      [equity |-> 2500000,    daytrade_count |-> 2],
      [equity |-> 2999999,    daytrade_count |-> 3],
      [equity |-> 3000000,    daytrade_count |-> 2],
      [equity |-> 20000000,   daytrade_count |-> 0] }

\* the symbols held as positions, those with a pending buy order, and those
\* for which the brokerage rejects an order (submit_order raises)
Holdings ==
    { [positions |-> {}, pending |-> {}, rejects |-> {}],
      [positions |-> {1}, pending |-> {3}, rejects |-> {2, 20, 22}],
      [positions |-> {2, 21}, pending |-> {2, 22}, rejects |-> {16}] }

(***************************************************************************)
(* Pure parts of is_market_closing_soon, get_market_tide and               *)
(* execute_alpaca_trades                                                   *)
(***************************************************************************)
\* the gate without its lower minute bound
ClosingHourOnly(t) == t.hour = GATE_HOUR /\ t.minute <= GATE_MINUTE_TO

\* now_ny.hour == 15 and 40 <= now_ny.minute <= 59
IsMarketClosingSoon(t) ==
    t.hour = GATE_HOUR /\ GATE_MINUTE_FROM <= t.minute /\ t.minute <= GATE_MINUTE_TO

\* spy_ok and vix_ok
TideHealthy(d) == Gt(d.spy, d.sma20) /\ Gt(Num(VIX_LIMIT), d.vix)

\* the safeguard with > in place of >=
PdtBlocksStrict(acct) ==
    acct.equity < PDT_EQUITY_CENTS /\ acct.daytrade_count > PDT_DAYTRADES

\* equity < 30000 and int(account.daytrade_count) >= 2
PdtBlocks(acct) ==
    acct.equity < PDT_EQUITY_CENTS /\ acct.daytrade_count >= PDT_DAYTRADES

\* the filter on held symbols left out
FreshSetupsUnfiltered(rows, existing) == rows

\* winning_df[~winning_df['ticker'].isin(existing_tickers)]
FreshSetups(rows, existing) == SelectSeq(rows, LAMBDA r : r.ticker \notin existing)

\* min(len(fresh_setups), MAX_SETUPS)
NumSetups(fresh) == Min(Len(fresh), MAX_SETUPS)

RECURSIVE SortedOrders(_, _)
\* sort_values(by="win_rate", ascending=False) with the default kind, quicksort,
\* which is not stable: every order of the rows S that is non-increasing in
\* win_rate is an outcome
SortedOrders(rows, S) ==
    IF S = {} THEN { <<>> }
    ELSE LET top == { x \in S : \A y \in S : rows[y].win_rate <= rows[x].win_rate }
         IN  UNION { { <<rows[x]>> \o rest : rest \in SortedOrders(rows, S \ {x}) } :
                     x \in top }

\* .head(MAX_SETUPS)
HeadRows(rows) == SubSeq(rows, 1, Min(Len(rows), MAX_SETUPS))

\* the sequences the order loop may iterate over
RankedOutcomes(fresh) == { HeadRows(r) : r \in SortedOrders(fresh, 1..Len(fresh)) }

\* the slot not divided by the number of setups
QuantityUndivided(equity, n, price) == Trunc(Min(equity, MAX_CASH_CENTS), price)

\* int(slot_size / price) with slot_size = min(equity / num_setups, MAX_CASH):
\* min(equity / n, c) / price = min(equity, c * n) / (n * price)
Quantity(equity, n, price) ==
    Trunc(Min(equity, MAX_CASH_CENTS * n), n * price)

\* the bracket order built for a row of the ranked frame
OrderRequest(stock, qty) ==
    [symbol |-> stock.ticker, qty |-> qty, price |-> stock.price,
     take_profit |-> RoundHalfEven(stock.price * TAKE_PROFIT_PCT, 100),
     stop_loss |-> RoundHalfEven(stock.price * STOP_LOSS_PCT, 100)]

\* the scan loop left when an iteration raises
BreakAfterFailure(idx, n) == n + 1

\* the loop index after an iteration of the scan loop raised
AfterScanFailure(idx, n) == idx + 1

\* the loop index after an iteration of the order loop raised
AfterOrderFailure(idx, n) == idx + 1

\* the check for an empty frame left out
ReachesBrokerageAlways(rows) == TRUE

\* the condition under which execute_alpaca_trades goes on to the brokerage
ReachesBrokerage(rows) == rows # <<>>

(***************************************************************************)
(* State                                                                   *)
(***************************************************************************)
VARIABLES
    pc,            \* where run_main is
    ny_time,       \* the clock reading of is_market_closing_soon
    attempt,       \* attempts made by the retry loop that is running
    tide,          \* what get_market_tide returned: [safe, msg]
    tickers,       \* the symbols read from tickers.txt
    data,          \* the download: a fixture per symbol, <<>> when empty
    i,             \* scan loop: position in tickers
    hist,          \* backtest: rows where the rule fired
    h,             \* backtest: position in hist
    wins,          \* backtest: wins counted
    total,         \* backtest: signals counted
    hits,          \* candidates found, in scan order
    broker,        \* the brokerage: equity, daytrade_count, positions held,
                   \* symbols with a pending order, symbols of cancelled orders,
                   \* symbols it rejects orders for
    calls,         \* the calls the brokerage received, in order
    account,       \* what get_account returned
    num_setups,    \* min(len(fresh_setups), MAX_SETUPS)
    ranked,        \* the sorted, capped frame the order loop iterates over
    k,             \* order loop: position in ranked
    orders,        \* the orders the brokerage accepted
    trade_log,     \* lines of the execution log
    result,        \* the message execute_alpaca_trades returned
    emails         \* reports sent

vars == <<pc, ny_time, attempt, tide, tickers, data, i, hist, h, wins, total, hits,
          broker, calls, account, num_setups, ranked, k, orders, trade_log, result, emails>>

scanVars == <<i, hist, h, wins, total, hits>>
execVars == <<broker, calls, account, num_setups, ranked, k, orders, trade_log,
              result>>

Init ==
    /\ pc = "gate"
    /\ ny_time = [hour |-> 0, minute |-> 0]
    /\ attempt = 0
    /\ tide = [safe |-> FALSE, msg |-> "none"]
    /\ tickers = <<>>
    /\ data = <<>>
    /\ i = 1
    /\ hist = <<>>
    /\ h = 1
    /\ wins = 0
    /\ total = 0
    /\ hits = <<>>
    /\ \E a \in Accounts, p \in Holdings :
          broker = [equity |-> a.equity, daytrade_count |-> a.daytrade_count,
                    positions |-> p.positions, pending |-> p.pending,
                    cancelled |-> {}, rejects |-> p.rejects]
    /\ calls = <<>>
    /\ account = [queried |-> FALSE, equity |-> 0, daytrade_count |-> 0]
    /\ num_setups = 0
    /\ ranked = <<>>
    /\ k = 1
    /\ orders = <<>>
    /\ trade_log = <<>>
    /\ result = "none"
    /\ emails = 0

(***************************************************************************)
(* run_main up to the scan                                                 *)
(***************************************************************************)
\* is_market_closing_soon and the return of run_main outside the window
TimeGate ==
    /\ pc = "gate"
    /\ \E t \in Clock :
          /\ ny_time' = t
          /\ pc' = IF IsMarketClosingSoon(t) THEN "tide" ELSE "done"
    /\ UNCHANGED <<attempt, tide, tickers, data, emails>>
    /\ UNCHANGED scanVars
    /\ UNCHANGED execVars

\* one iteration of the retry loop of get_market_tide
TideAttempt ==
    /\ pc = "tide"
    /\ attempt < TIDE_MAX_RETRIES
    /\ \E d \in TideDownloads :
          IF d.raises
          THEN /\ attempt' = attempt + 1
               /\ UNCHANGED <<pc, tide>>
          ELSE /\ tide' = IF TideHealthy(d)
                          THEN [safe |-> TRUE, msg |-> "MARKET HEALTHY"]
                          ELSE [safe |-> FALSE, msg |-> "MARKET UNSAFE"]
               /\ attempt' = 0
               /\ pc' = "after_tide"
    /\ UNCHANGED <<ny_time, tickers, data, emails>>
    /\ UNCHANGED scanVars
    /\ UNCHANGED execVars

\* get_market_tide after the last retry failed
TideGiveUp ==
    /\ pc = "tide"
    /\ attempt = TIDE_MAX_RETRIES
    /\ tide' = [safe |-> TRUE, msg |-> "Tide Check Failed. Assuming Safe."]
    /\ attempt' = 0
    /\ pc' = "after_tide"
    /\ UNCHANGED <<ny_time, tickers, data, emails>>
    /\ UNCHANGED scanVars
    /\ UNCHANGED execVars

\* if not tide_safe: send_email(...); return
TideUnsafeReport ==
    /\ pc = "after_tide"
    /\ ~tide.safe
    /\ emails' = emails + 1
    /\ pc' = "done"
    /\ UNCHANGED <<ny_time, attempt, tide, tickers, data>>
    /\ UNCHANGED scanVars
    /\ UNCHANGED execVars

\* tickers.txt does not exist
NoTickerFile ==
    /\ pc = "after_tide"
    /\ tide.safe
    /\ pc' = "done"
    /\ UNCHANGED <<ny_time, attempt, tide, tickers, data, emails>>
    /\ UNCHANGED scanVars
    /\ UNCHANGED execVars

\* the ticker list is read
ReadTickers ==
    /\ pc = "after_tide"
    /\ tide.safe
    /\ \E n \in {0} \cup { Len(d) : d \in Downloads } :
          tickers' = [s \in 1..n |-> s]
    /\ pc' = "download"
    /\ UNCHANGED <<ny_time, attempt, tide, data, emails>>
    /\ UNCHANGED scanVars
    /\ UNCHANGED execVars

\* one iteration of the download loop that raises or returns empty data
DownloadFails ==
    /\ pc = "download"
    /\ attempt < DOWNLOAD_ATTEMPTS
    /\ attempt' = attempt + 1
    /\ UNCHANGED <<pc, ny_time, tide, tickers, data, emails>>
    /\ UNCHANGED scanVars
    /\ UNCHANGED execVars

\* one iteration of the download loop that returns data and breaks
DownloadSucceeds ==
    /\ pc = "download"
    /\ attempt < DOWNLOAD_ATTEMPTS
    /\ \E d \in Downloads :
          /\ Len(d) = Len(tickers)
          /\ data' = d
    /\ attempt' = 0
    /\ i' = 1
    /\ pc' = "scan"
    /\ UNCHANGED <<ny_time, tide, tickers, emails, hist, h, wins, total, hits>>
    /\ UNCHANGED execVars

\* the download loop ends without data: the scan is skipped
DownloadGiveUp ==
    /\ pc = "download"
    /\ attempt = DOWNLOAD_ATTEMPTS
    /\ attempt' = 0
    /\ pc' = "execute"
    /\ UNCHANGED <<ny_time, tide, tickers, data, emails>>
    /\ UNCHANGED scanVars
    /\ UNCHANGED execVars

(***************************************************************************)
(* The scan loop of run_main                                               *)
(***************************************************************************)
\* the cleaned frame of a symbol, and the frame with its indicator columns
CleanFrame(fx) == DropNa(RawRows(fx))
IndicatorFrame(fx) == CalculateIndicators(CleanFrame(fx), fx)

\* the symbol is dropped by one of the `continue` statements before indicators
RejectedEarly(fx) ==
    IF EmptyOrAllNaN(RawRows(fx)) THEN TRUE
    ELSE IF TooShort(CleanFrame(fx)) THEN TRUE
    ELSE LiquidityRejects(CleanFrame(fx))

\* the loop body raises: data[symbol] is missing, or calculate_indicators
\* returned the frame without the columns and today['SMA10'] is a KeyError
BodyRaises(fx) ==
    IF ~fx.present THEN TRUE
    ELSE IF RejectedEarly(fx) THEN FALSE
    ELSE fx.ta = "raise"

\* the rule fires on the last bar
LiveSignal(fx) ==
    LET frame == IndicatorFrame(fx) IN Fires(frame, Len(frame))

\* except: continue
ScanRaises ==
    /\ pc = "scan"
    /\ i <= Len(tickers)
    /\ BodyRaises(data[tickers[i]])
    /\ i' = AfterScanFailure(i, Len(tickers))
    /\ UNCHANGED <<pc, ny_time, attempt, tide, tickers, data, emails,
                   hist, h, wins, total, hits>>
    /\ UNCHANGED execVars

\* a `continue`, or no signal on the last bar
ScanSkips ==
    /\ pc = "scan"
    /\ i <= Len(tickers)
    /\ LET fx == data[tickers[i]]
       IN  /\ ~BodyRaises(fx)
           /\ IF RejectedEarly(fx) THEN TRUE ELSE ~LiveSignal(fx)
    /\ i' = i + 1
    /\ UNCHANGED <<pc, ny_time, attempt, tide, tickers, data, emails,
                   hist, h, wins, total, hits>>
    /\ UNCHANGED execVars

\* the rule fires on the last bar: hist is computed and the backtest starts
ScanSignal ==
    /\ pc = "scan"
    /\ i <= Len(tickers)
    /\ LET fx == data[tickers[i]]
       IN  /\ ~BodyRaises(fx)
           /\ ~RejectedEarly(fx)
           /\ LiveSignal(fx)
           /\ hist' = Hist(IndicatorFrame(fx))
    /\ h' = 1
    /\ wins' = 0
    /\ total' = 0
    /\ pc' = "backtest"
    /\ UNCHANGED <<ny_time, attempt, tide, tickers, data, emails, i, hits>>
    /\ UNCHANGED execVars

\* one iteration of `for d in hist`; the dates of the index are distinct, so
\* get_loc(d) is the position of the row
BacktestStep ==
    /\ pc = "backtest"
    /\ h <= Len(hist)
    /\ LET df == CleanFrame(data[tickers[i]])
       IN  /\ wins' = NextWins(wins, df, hist[h])
           /\ total' = NextTotal(total, hist[h], Len(df))
    /\ h' = h + 1
    /\ UNCHANGED <<pc, ny_time, attempt, tide, tickers, data, emails, i, hist, hits>>
    /\ UNCHANGED execVars

\* after the backtest: the symbol becomes a hit, or not
BacktestFinish ==
    /\ pc = "backtest"
    /\ h > Len(hist)
    /\ LET df == CleanFrame(data[tickers[i]])
       IN  hits' = IF HasEvidence(total) /\ AcceptsWinRate(wins, total)
                   THEN Append(hits, [ticker |-> tickers[i],
                                      win_rate |-> RoundWinRate(wins, total),
                                      price |-> RoundPrice(df[Len(df)].Close)])
                   ELSE hits
    /\ i' = i + 1
    /\ pc' = "scan"
    /\ UNCHANGED <<ny_time, attempt, tide, tickers, data, emails, hist, h, wins, total>>
    /\ UNCHANGED execVars

\* the scan loop ends: execute_alpaca_trades(res_df) is called
ScanDone ==
    /\ pc = "scan"
    /\ i > Len(tickers)
    /\ pc' = "execute"
    /\ UNCHANGED <<ny_time, attempt, tide, tickers, data, emails>>
    /\ UNCHANGED scanVars
    /\ UNCHANGED execVars

(***************************************************************************)
(* execute_alpaca_trades and the report                                    *)
(***************************************************************************)
\* if winning_df.empty: return
ExecuteEmpty ==
    /\ pc = "execute"
    /\ ~ReachesBrokerage(hits)
    /\ result' = "No trades to execute (Empty Data)."
    /\ pc' = "email"
    /\ UNCHANGED <<ny_time, attempt, tide, tickers, data, emails>>
    /\ UNCHANGED scanVars
    /\ UNCHANGED <<broker, calls, account, num_setups, ranked, k, orders, trade_log>>

\* client.cancel_orders()
CancelOrders ==
    /\ pc = "execute"
    /\ ReachesBrokerage(hits)
    /\ broker' = [broker EXCEPT !.pending = {},
                                !.cancelled = broker.cancelled \cup broker.pending]
    /\ calls' = Append(calls, "cancel_orders")
    /\ pc' = "account"
    /\ UNCHANGED <<ny_time, attempt, tide, tickers, data, emails>>
    /\ UNCHANGED scanVars
    /\ UNCHANGED <<account, num_setups, ranked, k, orders, trade_log, result>>

\* client.get_account() and the PDT safeguard
GetAccount ==
    /\ pc = "account"
    /\ account' = [queried |-> TRUE, equity |-> broker.equity,
                   daytrade_count |-> broker.daytrade_count]
    /\ calls' = Append(calls, "get_account")
    /\ IF PdtBlocks(account')
       THEN /\ result' = "BLOCKED: PDT Safeguard Active."
            /\ pc' = "email"
       ELSE /\ result' = result
            /\ pc' = "positions"
    /\ UNCHANGED <<ny_time, attempt, tide, tickers, data, emails>>
    /\ UNCHANGED scanVars
    /\ UNCHANGED <<broker, num_setups, ranked, k, orders, trade_log>>

\* client.get_all_positions(), the filter, the slot size, the sort and the cap.
\* A frame built from a non-empty hit list always has the 'ticker' column, so
\* the return for a missing column is never taken.
GetPositions ==
    /\ pc = "positions"
    /\ calls' = Append(calls, "get_all_positions")
    /\ LET fresh == FreshSetups(hits, broker.positions)
       IN  /\ num_setups' = NumSetups(fresh)
           /\ IF NumSetups(fresh) = 0
              THEN /\ result' = "No new setups found or already owned."
                   /\ pc' = "email"
                   /\ UNCHANGED <<ranked, k>>
              ELSE /\ ranked' \in RankedOutcomes(fresh)
                   /\ k' = 1
                   /\ pc' = "orders"
                   /\ result' = result
    /\ UNCHANGED <<ny_time, attempt, tide, tickers, data, emails>>
    /\ UNCHANGED scanVars
    /\ UNCHANGED <<broker, account, orders, trade_log>>

\* the quantity computed for the row the order loop is at
CurrentQty == Quantity(account.equity, num_setups, ranked[k].price)

\* an iteration of the order loop whose order the brokerage accepts
SubmitOrder ==
    /\ pc = "orders"
    /\ k <= Len(ranked)
    /\ CurrentQty > 0
    /\ ranked[k].ticker \notin broker.rejects
    /\ orders' = Append(orders, OrderRequest(ranked[k], CurrentQty))
    /\ broker' = [broker EXCEPT !.pending = broker.pending \cup {ranked[k].ticker}]
    /\ calls' = Append(calls, "submit_order")
    /\ trade_log' = Append(trade_log, [line |-> "BOUGHT", ticker |-> ranked[k].ticker])
    /\ k' = k + 1
    /\ UNCHANGED <<pc, ny_time, attempt, tide, tickers, data, emails>>
    /\ UNCHANGED scanVars
    /\ UNCHANGED <<account, num_setups, ranked, result>>

\* an iteration of the order loop in which submit_order raises
SubmitOrderRaises ==
    /\ pc = "orders"
    /\ k <= Len(ranked)
    /\ CurrentQty > 0
    /\ ranked[k].ticker \in broker.rejects
    /\ calls' = Append(calls, "submit_order")
    /\ trade_log' = Append(trade_log, [line |-> "Error buying", ticker |-> ranked[k].ticker])
    /\ k' = AfterOrderFailure(k, Len(ranked))
    /\ UNCHANGED <<pc, ny_time, attempt, tide, tickers, data, emails>>
    /\ UNCHANGED scanVars
    /\ UNCHANGED <<broker, account, num_setups, ranked, orders, result>>

\* an iteration of the order loop with qty = 0: nothing is submitted or logged
SkipOrder ==
    /\ pc = "orders"
    /\ k <= Len(ranked)
    /\ CurrentQty <= 0
    /\ k' = k + 1
    /\ UNCHANGED <<pc, ny_time, attempt, tide, tickers, data, emails>>
    /\ UNCHANGED scanVars
    /\ UNCHANGED <<broker, calls, account, num_setups, ranked, orders, trade_log,
                   result>>

\* the order loop ends: the log is returned
ExecuteReturn ==
    /\ pc = "orders"
    /\ k > Len(ranked)
    /\ result' = IF trade_log # <<>> THEN "trade log" ELSE "No orders placed."
    /\ pc' = "email"
    /\ UNCHANGED <<ny_time, attempt, tide, tickers, data, emails>>
    /\ UNCHANGED scanVars
    /\ UNCHANGED <<broker, calls, account, num_setups, ranked, k, orders, trade_log>>

\* send_email(res_df, trade_log, port_html, ny_time, tide_msg)
SendEmail ==
    /\ pc = "email"
    /\ emails' = emails + 1
    /\ pc' = "done"
    /\ UNCHANGED <<ny_time, attempt, tide, tickers, data>>
    /\ UNCHANGED scanVars
    /\ UNCHANGED execVars

Next ==
    \/ TimeGate
    \/ TideAttempt
    \/ TideGiveUp
    \/ TideUnsafeReport
    \/ NoTickerFile
    \/ ReadTickers
    \/ DownloadFails
    \/ DownloadSucceeds
    \/ DownloadGiveUp
    \/ ScanRaises
    \/ ScanSkips
    \/ ScanSignal
    \/ BacktestStep
    \/ BacktestFinish
    \/ ScanDone
    \/ ExecuteEmpty
    \/ CancelOrders
    \/ GetAccount
    \/ GetPositions
    \/ SubmitOrder
    \/ SubmitOrderRaises
    \/ SkipOrder
    \/ ExecuteReturn
    \/ SendEmail

Spec == Init /\ [][Next]_vars

(***************************************************************************)
(* Properties                                                              *)
(***************************************************************************)
RECURSIVE NotionalUpTo(_, _)
\* sum of quantity x price over the first j orders, in cents
NotionalUpTo(os, j) ==
    IF j = 0 THEN 0 ELSE os[j].qty * os[j].price + NotionalUpTo(os, j - 1)

Notional == NotionalUpTo(orders, Len(orders))

\* execute_alpaca_trades has returned
Returned == result # "none"

\* the symbols that had a pending buy order when the run started
PendingAtStart == IF calls = <<>> THEN broker.pending ELSE broker.cancelled

\* every order fits its slot, and one more share would not:
\* quantity = floor(min(equity / num_setups, MAX_CASH) / price)
QuantityIsFloorOfSlot ==
    \A j \in 1..Len(orders) :
        LET slotTimesN == Min(account.equity, 500000 * num_setups)
        IN  /\ orders[j].qty * orders[j].price * num_setups <= slotTimesN
            /\ (orders[j].qty + 1) * orders[j].price * num_setups > slotTimesN

\* C1, as claimed: for every equity value, the notional of the orders of one
\* run is at most the equity and at most maxCandidates x maxSlotCash
C1_NotionalWithinEquity ==
    Returned /\ account.queried =>
        /\ Notional <= account.equity
        /\ Notional <= 20 * 500000

\* C1, amended: the notional of the orders submitted so far is at most the
\* equity when the equity is not negative (no order is submitted when it is
\* negative), at most 20 x 5000 dollars, and every quantity is the floor of
\* the slot size over the price
C1_NotionalWithinPositiveEquity ==
    /\ Notional <= Max(account.equity, 0)
    /\ Notional <= 20 * 500000
    /\ QuantityIsFloorOfSlot
    /\ Len(orders) <= 20

\* C1: a run that placed maxCandidates orders with the equity, not the cap,
\* bounding the slot
C1_Witness ==
    /\ pc = "done"
    /\ Len(orders) = 20
    /\ account.equity < 20 * 500000
    /\ Notional > 0

PdtApplies == broker.equity < 3000000 /\ broker.daytrade_count >= 2

\* C3, as claimed: when the PDT guard applies the sizer submits no order and
\* reports "blocked", whatever candidates it is given
C3_BlockedWhateverCandidates ==
    Returned /\ PdtApplies =>
        /\ orders = <<>>
        /\ result = "BLOCKED: PDT Safeguard Active."

\* C3, amended: when the PDT guard applies the sizer submits no order; it
\* reports "blocked" when it is given at least one candidate, and "no trades"
\* without asking for the account when it is given none
C3_BlockedWhenCandidates ==
    Returned /\ PdtApplies =>
        /\ orders = <<>>
        /\ hits # <<>> => result = "BLOCKED: PDT Safeguard Active."
        /\ hits = <<>> =>
              result = "No trades to execute (Empty Data)." /\ ~account.queried

\* C3: a run blocked with more candidates than maxCandidates
C3_Witness ==
    /\ pc = "done"
    /\ result = "BLOCKED: PDT Safeguard Active."
    /\ Len(hits) > 20
    /\ broker.equity = 2500000
    /\ broker.daytrade_count = 2

\* the candidates that are not held, in scan order
FreshNow == FreshSetups(hits, broker.positions)

\* C4, as claimed: the sequence that is capped and turned into orders is
\* non-increasing in win rate, candidates with equal win rates keep their scan
\* order, and at a tie on the cut-off the candidates scanned earlier are kept
C4_SortedAndStable ==
    pc = "orders" =>
        /\ \A a, b \in 1..Len(ranked) :
              a < b => /\ ranked[a].win_rate >= ranked[b].win_rate
                       /\ ranked[a].win_rate = ranked[b].win_rate
                             => ranked[a].ticker < ranked[b].ticker
        /\ \A x \in 1..Len(FreshNow), b \in 1..Len(ranked) :
              /\ \A a \in 1..Len(ranked) : ranked[a].ticker # FreshNow[x].ticker
              /\ ranked[b].win_rate = FreshNow[x].win_rate
              => ranked[b].ticker < FreshNow[x].ticker

\* the frame of the symbol the scan loop is at
CurrentFrame == CleanFrame(data[tickers[i]])

\* C5: a signal at row idx changes wins or total only if the frame has a row
\* idx + 3; signals on the last three rows change neither
C5_CountedEventsHaveForwardBar ==
    [][pc = "backtest" /\ (total' # total \/ wins' # wins)
          => hist[h] + 3 <= Len(CurrentFrame)]_vars

\* C5: a backtest that ended with signals counted and signals left out
C5_Witness ==
    /\ pc = "backtest"
    /\ h > Len(hist)
    /\ total > 0
    /\ total < Len(hist)
    /\ hist[Len(hist)] = Len(CurrentFrame)

\* C6: 0 <= wins <= total throughout; every win rate of the hit list is in
\* [55, 100] percent; a hit is appended only when total > 0
C6_WinRateOnlyWithEvidence ==
    /\ [](/\ 0 <= wins
          /\ wins <= total
          /\ \A j \in 1..Len(hits) : 550 <= hits[j].win_rate /\ hits[j].win_rate <= 1000)
    /\ [][hits' # hits => total > 0 /\ 100 * wins >= 55 * total]_vars

\* C6: with hits already found, a backtest ends with no signal counted
C6_Witness ==
    /\ pc = "backtest"
    /\ h > Len(hist)
    /\ total = 0
    /\ hits # <<>>

\* pandas_ta computed SMA10, SMA20, ADX and the previous ADX of row j
IndicatorsComputed(fx, j) ==
    /\ fx.ta = "ok"
    /\ j >= 20
    /\ j > 2 * 14

\* C7, as claimed: a row fires only if every indicator the rule reads was
\* computed for it; an indicator that was not computed is never replaced by 0,
\* and no symbol becomes a hit through it
C7_UndefinedNeverAccepts ==
    /\ pc = "backtest" =>
          \A x \in 1..Len(hist) : IndicatorsComputed(data[tickers[i]], hist[x])
    /\ \A j \in 1..Len(hits) :
          LET fx == data[hits[j].ticker]
          IN  IndicatorsComputed(fx, CleanLen(fx))

\* C8: an iteration of the scan loop or of the order loop that raises leaves
\* the hits and the orders as they are and moves on to the next symbol; both
\* loops always reach the end of their list
C8_FailureExcludesOneSymbol ==
    /\ [][pc = "scan" /\ i <= Len(tickers) /\ BodyRaises(data[tickers[i]])
            => hits' = hits /\ orders' = orders /\ i' = i + 1 /\ pc' = "scan"]_vars
    /\ [][pc = "orders" /\ k <= Len(ranked) /\ CurrentQty > 0
             /\ ranked[k].ticker \in broker.rejects
            => hits' = hits /\ orders' = orders /\ k' = k + 1 /\ pc' = "orders"]_vars
    /\ [](pc = "execute" /\ data # <<>> => i = Len(tickers) + 1)
    /\ [](Returned /\ ranked # <<>> => k = Len(ranked) + 1)

\* C8: a finished run in which a symbol of the scan raised, an order was
\* rejected, and symbols after each of them became a hit and an order
C8_Witness ==
    /\ pc = "done"
    /\ \E s \in 1..Len(tickers), j \in 1..Len(hits) :
          BodyRaises(data[s]) /\ hits[j].ticker > s
    /\ \E x, y \in 1..Len(trade_log) :
          x < y /\ trade_log[x].line = "Error buying" /\ trade_log[y].line = "BOUGHT"

\* the clock reading is 15:40 to 15:59 New York time
InWindow == ny_time.hour = 15 /\ ny_time.minute >= 40 /\ ny_time.minute <= 59

C10_CancelFirstWhenCandidates ==
    /\ calls # <<>> => calls[1] = "cancel_orders" /\ hits # <<>>
    /\ \A j \in 2..Len(calls) : calls[j] # "cancel_orders"
    /\ Len(calls) >= 2 => calls[2] = "get_account"
    /\ account.queried => Len(calls) >= 2
    /\ Returned => (hits # <<>> <=> calls # <<>>)
    /\ result = "BLOCKED: PDT Safeguard Active." =>
          /\ calls = <<"cancel_orders", "get_account">>
          /\ orders = <<>>
          /\ broker.pending = {}

\* C10: a blocked run whose cancellation removed a pending order
C10_Witness ==
    /\ pc = "done"
    /\ result = "BLOCKED: PDT Safeguard Active."
    /\ broker.cancelled # {}

====
